---- MODULE Spec2Model ----
(***************************************************************************)
(* A model of the classroom setup of the deep-learning course              *)
(* (Includes/Classroom-Setup.py: directory creation, dataset install and   *)
(* validation) and of the "pull the last run" step of the MLflow lesson    *)
(* (Solutions/DL 04 - MLflow.py).                                          *)
(*                                                                         *)
(* Paths are Python strings, modelled as sequences of one-character        *)
(* strings, so that the slicing file.path[len(prefix):] and the ordering   *)
(* used by list.sort() are computed and not assumed.  The file system is   *)
(* the set of entries dbutils.fs.ls can return: FileInfo(path, isDir),     *)
(* where the path of a directory ends with "/".                            *)
(***************************************************************************)
EXTENDS Integers, Sequences, FiniteSets, TLC

VARIABLES
    fs,            \* the file system: a set of [path, isDir]
    lsRev,         \* the order in which dbutils.fs.ls lists a directory
    widget,        \* the value of the "reinstall" widget, or NoWidget
    pc,            \* the position of the notebook run
    reinstall,     \* the variable reinstall of the setup cell
    installs,      \* the install_datasets calls of this notebook run
    validations,   \* the validate_datasets calls of this notebook run
    local_files,   \* validate_datasets: list_r(datasets_dir)
    remote_files,  \* validate_datasets: list_r(source_path)
    prevOk,        \* the previous notebook run finished without raising
    fsPrev,        \* the file system when that run finished
    now,           \* the clock start_time is read from
    runs,          \* the runs of the tracking server
    npc,           \* the position of the MLflow lesson
    run,           \* the variable run of the lesson
    found,         \* runs[0] of the lesson
    predict,       \* the run whose model the UDF predict loads
    searched,      \* the runs of the server when search_runs was called
    lateStart      \* another run was started in the experiment after
                   \* track_experiments returned and before search_runs

setupVars == <<fs, lsRev, widget, pc, reinstall, installs, validations,
               local_files, remote_files, prevOk, fsPrev>>
mlflowVars == <<now, runs, npc, run, found, predict, searched, lateStart>>
vars == <<setupVars, mlflowVars>>

(***************************************************************************)
(* Bounds.                                                                 *)
(***************************************************************************)
MaxNodes == 2

MaxOtherRuns == 2

MaxTime == 2

Names == {"a", "b"}

(***************************************************************************)
(* Strings.                                                                *)
(***************************************************************************)
Range(s) == {s[i] : i \in 1..Len(s)}

\* ord(c) of the characters used
Code(c) ==
    CASE c = "/" -> 47
      [] c = "E" -> 69
      [] c = "R" -> 82
      [] c = "T" -> 84
      [] c = "U" -> 85
      [] c = "a" -> 97
      [] c = "b" -> 98
      [] c = "c" -> 99
      [] c = "d" -> 100
      [] c = "e" -> 101
      [] c = "f" -> 102
      [] c = "l" -> 108
      [] c = "r" -> 114
      [] c = "s" -> 115
      [] c = "t" -> 116
      [] c = "u" -> 117
      [] c = "v" -> 118
      [] c = "w" -> 119

\* str.__lt__: lexicographic by code point, a proper prefix is smaller
RECURSIVE StrLess(_, _)
StrLess(s, t) ==
    IF t = <<>> THEN FALSE
    ELSE IF s = <<>> THEN TRUE
    ELSE IF s[1] = t[1] THEN StrLess(Tail(s), Tail(t))
    ELSE Code(s[1]) < Code(t[1])

StartsWith(s, p) == Len(p) <= Len(s) /\ SubSeq(s, 1, Len(p)) = p

\* s[n:]
SliceFrom(s, n) == SubSeq(s, n + 1, Len(s))

EndsWithSlash(s) == s # <<>> /\ s[Len(s)] = "/"

\* list.sort(): the ascending permutation of the list
RECURSIVE Insert(_, _)
Insert(x, sorted) ==
    IF sorted = <<>> THEN <<x>>
    ELSE IF StrLess(x, sorted[1]) THEN <<x>> \o sorted
    ELSE <<sorted[1]>> \o Insert(x, Tail(sorted))

\* a list_r that does not sort
Unsorted(s) == s

RECURSIVE Sort(_)
Sort(s) == IF s = <<>> THEN <<>> ELSE Insert(s[1], Sort(Tail(s)))

\* str.lower()
LowerChar(c) ==
    CASE c = "T" -> "t"
      [] c = "R" -> "r"
      [] c = "U" -> "u"
      [] c = "E" -> "e"
      [] OTHER -> c

lower(s) == [i \in 1..Len(s) |-> LowerChar(s[i])]

(***************************************************************************)
(* The paths of the setup.                                                 *)
(***************************************************************************)
userhome == <<"/", "u">>

course_dir == userhome \o <<"/", "c">>

working_dir == course_dir \o <<"/", "w">>

datasets_dir == course_dir \o <<"/", "d">>

source_path == <<"s", "/", "v">>

(***************************************************************************)
(* dbutils.fs.                                                             *)
(***************************************************************************)
AsDir(p) == IF EndsWithSlash(p) THEN p ELSE p \o <<"/">>

DirEntry(p) == [path |-> AsDir(p), isDir |-> TRUE]

IsDir(f, p) == DirEntry(p) \in f

IsFile(f, p) == [path |-> p, isDir |-> FALSE] \in f

\* the directory an entry is listed in: its path up to the last "/" before
\* its name
Parent(p) ==
    LET q == IF EndsWithSlash(p) THEN SubSeq(p, 1, Len(p) - 1) ELSE p
        cut == {i \in 1..Len(q) : q[i] = "/"}
    IN IF cut = {} THEN <<>>
       ELSE SubSeq(q, 1, CHOOSE i \in cut : \A j \in cut : j <= i)

\* the entries below directory p, p itself excluded
Under(f, p) == {e \in f : StartsWith(e.path, AsDir(p)) /\ e.path # AsDir(p)}

Children(f, p) == {e \in f : Parent(e.path) = AsDir(p)}

RECURSIVE SeqOfSet(_)
SeqOfSet(S) ==
    IF S = {} THEN <<>>
    ELSE LET e == CHOOSE x \in S : \A y \in S : y = x \/ StrLess(x.path, y.path)
         IN <<e>> \o SeqOfSet(S \ {e})

Reverse(s) == [i \in 1..Len(s) |-> s[Len(s) + 1 - i]]

\* dbutils.fs.ls raises when the path is neither a directory nor a file
ls_raises(f, p) == ~IsDir(f, p) /\ ~IsFile(f, p)

\* dbutils.fs.ls(p): the entries of a directory (in the order the store
\* lists them), or the file itself
ls(f, p) ==
    IF IsDir(f, p)
    THEN IF lsRev THEN Reverse(SeqOfSet(Children(f, p)))
         ELSE SeqOfSet(Children(f, p))
    ELSE <<[path |-> p, isDir |-> FALSE]>>

\* dbutils.fs.mkdirs(p): the directory and its missing parents; nothing
\* changes when they exist
mkdirs(f, p) ==
    f \cup {DirEntry(SubSeq(p, 1, i - 1)) :
                i \in {j \in 2..Len(p) : p[j] = "/" /\ p[j - 1] # "/"}}
      \cup {DirEntry(p)}

\* dbutils.fs.rm(p, True)
rm(f, p) == (f \ Under(f, p)) \ {DirEntry(p), [path |-> p, isDir |-> FALSE]}

Reroot(e, src, dst) ==
    [path |-> AsDir(dst) \o SliceFrom(e.path, Len(AsDir(src))),
     isDir |-> e.isDir]

\* dbutils.fs.cp(src, dst, True) of a directory: the entries below src
\* appear below dst, beside what dst already holds
cp(f, src, dst) ==
    mkdirs(f, dst) \cup {Reroot(e, src, dst) : e \in Under(f, src)}

\* what a dbutils.fs.rm(p, True) that raises can leave behind: any part of
\* the tree below p removed, children before their directory
rm_partial(f, p) ==
    {f \ R : R \in {Q \in SUBSET Under(f, p) :
                      \A e \in Q : e.isDir => Under(f, e.path) \subseteq Q}}

\* what a dbutils.fs.cp(src, dst, True) that raises can leave behind:
\* nothing, or any part of the tree copied, a directory before its children
cp_partial(f, src, dst) ==
    {f} \cup
    {mkdirs(f, dst) \cup {Reroot(e, src, dst) : e \in S} :
        S \in {Q \in SUBSET Under(f, src) :
                 \A e \in Q : Parent(e.path) = AsDir(src)
                              \/ DirEntry(Parent(e.path)) \in Q}}

(***************************************************************************)
(* Classroom-Setup.py.                                                     *)
(***************************************************************************)
\* a path_exists with > for >=
path_exists_empty_is_absent(f, path) ==
    IF ls_raises(f, path) THEN FALSE ELSE Len(ls(f, path)) > 0

path_exists(f, path) ==
    IF ls_raises(f, path) THEN FALSE ELSE Len(ls(f, path)) >= 0

Call(f, ops, raised) == [fs |-> f, ops |-> ops, raised |-> raised]

\* the dbutils.fs.rm step of install_datasets, and how it can end
install_rm(f, target_dir) ==
    {Call(rm(f, target_dir), <<"rm">>, FALSE)}
        \cup {Call(g, <<"rm">>, TRUE) : g \in rm_partial(f, target_dir)}

\* the dbutils.fs.cp step of install_datasets, and how it can end
install_cp(f, target_dir) ==
    IF ~IsDir(f, source_path) THEN {Call(f, <<"cp">>, TRUE)}
    ELSE {Call(cp(f, source_path, target_dir), <<"cp">>, FALSE)}
            \cup {Call(g, <<"cp">>, TRUE) :
                    g \in cp_partial(f, source_path, target_dir)}

\* an install_datasets that does not skip an existing dataset
install_datasets_no_skip(f, reinst) ==
    LET target_dir == datasets_dir
        existing == path_exists(f, target_dir)
        removed == IF existing THEN install_rm(f, target_dir)
                   ELSE {Call(f, <<>>, FALSE)}
    IN UNION {IF r.raised THEN {r}
              ELSE {Call(c.fs, r.ops \o c.ops, c.raised) :
                      c \in install_cp(r.fs, target_dir)} :
              r \in removed}

\* an install_datasets that copies over the old version
install_datasets_no_rm(f, reinst) ==
    LET target_dir == datasets_dir
        existing == path_exists(f, target_dir)
    IN IF ~reinst /\ existing
       THEN {Call(f, <<>>, FALSE)}
       ELSE install_cp(f, target_dir)

\* install_datasets(reinstall): every way the call can end, as the file
\* system it leaves, the dbutils.fs calls it made and whether it raised
install_datasets(f, reinst) ==
    LET target_dir == datasets_dir
        existing == path_exists(f, target_dir)
    IN IF ~reinst /\ existing
       THEN {Call(f, <<>>, FALSE)}
       ELSE LET removed == IF existing THEN install_rm(f, target_dir)
                           ELSE {Call(f, <<>>, FALSE)}
            IN UNION {IF r.raised THEN {r}
                      ELSE {Call(c.fs, r.ops \o c.ops, c.raised) :
                              c \in install_cp(r.fs, target_dir)} :
                      r \in removed}

\* list_r(path, prefix, results) with files = dbutils.fs.ls(path): the loop
\* over files from its i-th entry on, then results.sort()
RECURSIVE list_r_from(_, _, _, _, _)
list_r_from(f, files, prefix, results, i) ==
    IF i > Len(files) THEN Sort(results)
    ELSE LET file == files[i]
             data == SliceFrom(file.path, Len(prefix))
             appended == Append(results, data)
         IN list_r_from(f, files, prefix,
                        IF file.isDir
                        THEN list_r_from(f, ls(f, file.path), prefix,
                                         appended, 1)
                        ELSE appended,
                        i + 1)

\* a list_r that does not descend into directories
list_r_flat(f, path) ==
    Sort([i \in 1..Len(ls(f, path)) |-> SliceFrom(ls(f, path)[i].path, Len(path))])

\* list_r(path): prefix = path, results = list()
list_r(f, path) == list_r_from(f, ls(f, path), path, <<>>, 1)

\* a validate_datasets that looks for extra files only
validate_datasets_extra_only(f) ==
    IF ls_raises(f, datasets_dir) \/ ls_raises(f, source_path)
    THEN [local_files |-> <<>>, remote_files |-> <<>>, raised |-> "ls"]
    ELSE LET loc == list_r(f, datasets_dir)
             rem == list_r(f, source_path)
         IN [local_files |-> loc, remote_files |-> rem,
             raised |->
                IF \E i \in 1..Len(loc) : loc[i] \notin Range(rem)
                THEN "Validation failed"
                ELSE "no"]

\* validate_datasets(): the two listings and the exception, if any
validate_datasets(f) ==
    IF ls_raises(f, datasets_dir) \/ ls_raises(f, source_path)
    THEN [local_files |-> <<>>, remote_files |-> <<>>, raised |-> "ls"]
    ELSE LET loc == list_r(f, datasets_dir)
             rem == list_r(f, source_path)
         IN [local_files |-> loc, remote_files |-> rem,
             raised |->
                IF \E i \in 1..Len(loc) : loc[i] \notin Range(rem)
                THEN "Validation failed"
                ELSE IF \E i \in 1..Len(rem) : rem[i] \notin Range(loc)
                THEN "Validation failed"
                ELSE "no"]

(***************************************************************************)
(* The directory trees the runs start from.  A tree is a set of entries    *)
(* whose paths are relative to its root: "/a" a file, "/a/" a directory.   *)
(***************************************************************************)
Dirs(T) == {<<"/">>} \cup {e.path : e \in {x \in T : x.isDir}}

Addable(T) ==
    {e \in {[path |-> d \o <<n>> \o (IF isD THEN <<"/">> ELSE <<>>),
             isDir |-> isD] : d \in Dirs(T), n \in Names, isD \in BOOLEAN} :
        \A x \in T : x.path # AsDir(e.path)
                     /\ x.path # SubSeq(AsDir(e.path), 1, Len(AsDir(e.path)) - 1)}

RECURSIVE TreesUpTo(_)
TreesUpTo(k) ==
    IF k = 0 THEN {{}}
    ELSE LET smaller == TreesUpTo(k - 1)
         IN smaller \cup UNION {{T \cup {e} : e \in Addable(T)} : T \in smaller}

Trees == TreesUpTo(MaxNodes)

\* tree T stored below directory root
Rooted(T, root) ==
    mkdirs({}, root) \cup {[path |-> root \o e.path, isDir |-> e.isDir] : e \in T}

\* the "reinstall" widget: not defined, or defined with a value
Widgets ==
    {[defined |-> FALSE, value |-> <<>>]}
        \cup {[defined |-> TRUE, value |-> v] :
                v \in {<<"t", "r", "u", "e">>, <<"T", "r", "U", "e">>,
                       <<"f", "a", "l", "s", "e">>, <<>>}}

NoRun == [id |-> 0, run_name |-> "none", experiment_id |-> "none",
          start_time |-> 0 - 1]

InitSetupVars ==
    /\ fs = {}
    /\ lsRev = FALSE
    /\ widget = [defined |-> FALSE, value |-> <<>>]
    /\ pc = "idle"
    /\ reinstall = FALSE
    /\ installs = <<>>
    /\ validations = 0
    /\ local_files = <<>>
    /\ remote_files = <<>>
    /\ prevOk = FALSE
    /\ fsPrev = {}

InitMlflowVars ==
    /\ now = 0
    /\ runs = {}
    /\ npc = "idle"
    /\ run = NoRun
    /\ found = NoRun
    /\ predict = NoRun
    /\ searched = {}
    /\ lateStart = FALSE

Init ==
    /\ \E S \in Trees :
         \/ fs = Rooted(S, source_path)
         \/ \E L \in Trees :
              fs = Rooted(S, source_path) \cup Rooted(L, datasets_dir)
    /\ lsRev \in BOOLEAN
    /\ widget \in Widgets
    /\ pc = "mkdirs"
    /\ reinstall = FALSE
    /\ installs = <<>>
    /\ validations = 0
    /\ local_files = <<>>
    /\ remote_files = <<>>
    /\ prevOk = FALSE
    /\ fsPrev = {}
    /\ InitMlflowVars

(***************************************************************************)
(* The cells of Classroom-Setup.py.                                        *)
(***************************************************************************)
\* dbutils.fs.mkdirs(userhome), (course_dir), (working_dir)
Mkdirs ==
    /\ pc = "mkdirs"
    /\ fs' = mkdirs(mkdirs(mkdirs(fs, userhome), course_dir), working_dir)
    /\ pc' = "try"
    /\ UNCHANGED <<lsRev, widget, reinstall, installs, validations,
                   local_files, remote_files, prevOk, fsPrev, mlflowVars>>

\* a comparison that forgets .lower()
widget_reinstall_exact(w) == w.value = <<"t", "r", "u", "e">>

\* dbutils.widgets.get("reinstall").lower() == "true"
widget_reinstall(w) == lower(w.value) = <<"t", "r", "u", "e">>

\* try: reinstall = dbutils.widgets.get("reinstall").lower() == "true"
ReadWidget ==
    /\ pc = "try"
    /\ IF widget.defined
       THEN /\ reinstall' = widget_reinstall(widget)
            /\ pc' = "install"
       ELSE /\ reinstall' = reinstall
            /\ pc' = "except"
    /\ UNCHANGED <<fs, lsRev, widget, installs, validations, local_files,
                   remote_files, prevOk, fsPrev, mlflowVars>>

InstallCall(site, reinst, out) ==
    [site |-> site, reinstall |-> reinst,
     listed |-> ~ls_raises(fs, datasets_dir),
     ops |-> out.ops, raised |-> out.raised, unchanged |-> out.fs = fs]

\* try: install_datasets(reinstall=reinstall)
InstallFirst ==
    /\ pc = "install"
    /\ \E out \in install_datasets(fs, reinstall) :
         /\ fs' = out.fs
         /\ installs' = Append(installs, InstallCall("try", reinstall, out))
         /\ pc' = IF out.raised THEN "except" ELSE "validate"
    /\ UNCHANGED <<lsRev, widget, reinstall, validations, local_files,
                   remote_files, prevOk, fsPrev, mlflowVars>>

\* except: install_datasets(reinstall=False)
InstallFallback ==
    /\ pc = "except"
    /\ \E out \in install_datasets(fs, FALSE) :
         /\ fs' = out.fs
         /\ installs' = Append(installs, InstallCall("except", FALSE, out))
         /\ pc' = IF out.raised THEN "raised" ELSE "validate"
    /\ UNCHANGED <<lsRev, widget, reinstall, validations, local_files,
                   remote_files, prevOk, fsPrev, mlflowVars>>

\* validate_datasets()
Validate ==
    /\ pc = "validate"
    /\ \E v \in {validate_datasets(fs)} :
          /\ local_files' = v.local_files
          /\ remote_files' = v.remote_files
          /\ pc' = IF v.raised = "no" THEN "done" ELSE v.raised
    /\ validations' = validations + 1
    /\ UNCHANGED <<fs, lsRev, widget, reinstall, installs, prevOk, fsPrev,
                   mlflowVars>>

Finished == pc \in {"done", "raised", "Validation failed", "ls"}

\* the notebook is run again after a run that finished without raising, in
\* a file system nothing else has changed (a run that raised leaves a tree
\* that is one of the trees of Init)
Rerun ==
    /\ pc = "done"
    /\ prevOk' = TRUE
    /\ fsPrev' = fs
    /\ widget' \in Widgets
    /\ pc' = "mkdirs"
    /\ reinstall' = FALSE
    /\ installs' = <<>>
    /\ validations' = 0
    /\ local_files' = <<>>
    /\ remote_files' = <<>>
    /\ UNCHANGED <<fs, lsRev, mlflowVars>>

Next ==
    \/ Mkdirs
    \/ ReadWidget
    \/ InstallFirst
    \/ InstallFallback
    \/ Validate
    \/ Rerun

Spec == Init /\ [][Next]_vars

(***************************************************************************)
(* DL 04 - MLflow.py: two tracked runs, then "pull the last run" and load  *)
(* its model as a Spark UDF.  Other clients of the tracking server start   *)
(* runs of their own at any time; start_time is the clock's value when a   *)
(* run is started.                                                         *)
(***************************************************************************)
Experiments == {"notebook", "elsewhere"}

\* without mlflow.set_experiment the runs are scoped to the notebook
NotebookExperiment == "notebook"

\* mlflow.start_run: a run with an id of its own, started now
NewRun(run_name, experiment_id) ==
    [id |-> Cardinality(runs) + 1, run_name |-> run_name,
     experiment_id |-> experiment_id, start_time |-> now]

\* a search ordered by "attributes.start_time asc"
search_runs_asc(rs, experiment_id) ==
    {r \in rs : /\ r.experiment_id = experiment_id
                /\ \A q \in rs : q.experiment_id = experiment_id
                                    => r.start_time <= q.start_time}

\* client.search_runs(experiment_id, order_by=["attributes.start_time desc"],
\* max_results=1): the runs that can come first; equal start times are
\* ordered as the server likes
search_runs(rs, experiment_id) ==
    {r \in rs : /\ r.experiment_id = experiment_id
                /\ \A q \in rs : q.experiment_id = experiment_id
                                    => q.start_time <= r.start_time}

\* track_experiments(run_name, ...): with mlflow.start_run(run_name=run_name)
TrackStart(run_name, from) ==
    /\ npc = from
    /\ runs' = runs \cup {NewRun(run_name, NotebookExperiment)}
    /\ npc' = run_name
    /\ UNCHANGED <<now, run, found, predict, searched, lateStart, setupVars>>

\* track_experiments: the model is fitted and logged, which takes time, and
\* the run is returned: run = track_experiments(run_name, ...)
TrackReturn(run_name, to) ==
    /\ npc = run_name
    /\ run' = CHOOSE r \in runs : r.run_name = run_name
    /\ now' = now + 1
    /\ npc' = to
    /\ UNCHANGED <<runs, found, predict, searched, lateStart, setupVars>>

\* runs = client.search_runs(run.info.experiment_id, ...); runs[0]
SearchRuns ==
    /\ npc = "tracked"
    /\ found' \in search_runs(runs, run.experiment_id)
    /\ searched' = runs
    /\ npc' = "searched"
    /\ UNCHANGED <<now, runs, run, predict, lateStart, setupVars>>

\* predict = mlflow.pyfunc.spark_udf(spark, f"runs:/{runs[0].info.run_id}/model")
SparkUdf ==
    /\ npc = "searched"
    /\ predict' = found
    /\ npc' = "done"
    /\ UNCHANGED <<now, runs, run, found, searched, lateStart, setupVars>>

\* another client starts a run
OtherStart ==
    /\ Cardinality({r \in runs : r.run_name = "other"}) < MaxOtherRuns
    /\ \E e \in Experiments :
         /\ runs' = runs \cup {NewRun("other", e)}
         /\ lateStart' = (lateStart \/ (npc = "tracked" /\ e = run.experiment_id))
    /\ UNCHANGED <<now, npc, run, found, predict, searched, setupVars>>

\* time passes
Tick ==
    /\ now < MaxTime
    /\ now' = now + 1
    /\ UNCHANGED <<runs, npc, run, found, predict, searched, lateStart,
                   setupVars>>

InitMlflow == InitSetupVars /\ InitMlflowVars

NextMlflow ==
    \/ TrackStart("ADAM", "idle")
    \/ TrackReturn("ADAM", "between")
    \/ TrackStart("StandardizedValidation", "between")
    \/ TrackReturn("StandardizedValidation", "tracked")
    \/ SearchRuns
    \/ SparkUdf
    \/ OtherStart
    \/ Tick

SpecMlflow == InitMlflow /\ [][NextMlflow]_vars

(***************************************************************************)
(* Properties.                                                             *)
(***************************************************************************)
\* the paths of the entries below root, relative to root
RelPaths(f, root) == {SliceFrom(e.path, Len(root)) : e \in Under(f, root)}

Validated == pc \in {"done", "Validation failed", "ls"}

Failed == pc \in {"raised", "Validation failed", "ls"}

StrictlyAscending(s) == \A i, j \in 1..Len(s) : i < j => StrLess(s[i], s[j])

\* C1: an install_datasets call made with reinstall False while the dataset
\* directory can be listed (an empty directory included) returns normally,
\* calls neither dbutils.fs.rm nor dbutils.fs.cp and leaves the file system
\* as it was.
C1_SkipLeavesFilesystem ==
    \A i \in 1..Len(installs) :
        (installs[i].listed /\ ~installs[i].reinstall)
            => /\ installs[i].ops = <<>>
               /\ ~installs[i].raised
               /\ installs[i].unchanged

C1_Witness ==
    /\ pc = "validate"
    /\ Len(installs) = 1
    /\ installs[1].listed
    /\ ~installs[1].reinstall
    /\ Under(fs, datasets_dir) = {}
    /\ Under(fs, source_path) # {}

\* C2: validate_datasets raises "Validation failed" when the relative paths
\* below datasets_dir and below source_path differ as sets, returns normally
\* when they are the same, and raises nothing else.
C2_RaisesIffMismatch ==
    Validated =>
        /\ pc # "ls"
        /\ (pc = "Validation failed")
              <=> (RelPaths(fs, datasets_dir) # RelPaths(fs, source_path))

C2_Witness ==
    /\ pc = "Validation failed"
    /\ RelPaths(fs, datasets_dir) \subseteq RelPaths(fs, source_path)
    /\ RelPaths(fs, datasets_dir) # {}

\* C3: the setup cell finishes without raising only if the tree below
\* datasets_dir has exactly the relative paths of the tree below source_path.
C3_DoneOnlyIfSameTree ==
    pc = "done" => RelPaths(fs, datasets_dir) = RelPaths(fs, source_path)

C3_Witness ==
    /\ pc = "done"
    /\ ~prevOk
    /\ Len(installs) = 2
    /\ installs[1].raised
    /\ \E e \in Under(fs, datasets_dir) : e.isDir /\ Under(fs, e.path) # {}

\* C4: in a run of the setup that follows a run that finished without
\* raising and that installs without reinstall, no step changes the file
\* system, no dbutils.fs.rm or dbutils.fs.cp is called and nothing raises.
C4_RerunChangesNothing ==
    (prevOk /\ \A i \in 1..Len(installs) : ~installs[i].reinstall)
        => /\ fs = fsPrev
           /\ ~Failed
           /\ \A i \in 1..Len(installs) :
                 installs[i].ops = <<>> /\ ~installs[i].raised

C4_Witness ==
    /\ prevOk
    /\ pc = "done"
    /\ Len(installs) = 1
    /\ ~installs[1].reinstall
    /\ Under(fs, datasets_dir) # {}

\* C5: when install_datasets(reinstall=True) has run to completion, the
\* validate_datasets call that follows returns without raising.
C5_ReinstallThenValid ==
    (/\ Validated
     /\ installs[Len(installs)].reinstall
     /\ ~installs[Len(installs)].raised) => pc = "done"

C5_Witness ==
    /\ pc = "done"
    /\ ~prevOk
    /\ installs[1].reinstall
    /\ installs[1].ops = <<"rm", "cp">>
    /\ Under(fs, datasets_dir) # {}

IsTrueIgnoringCase(v) ==
    /\ Len(v) = 4
    /\ v[1] \in {"t", "T"}
    /\ v[2] \in {"r", "R"}
    /\ v[3] \in {"u", "U"}
    /\ v[4] \in {"e", "E"}

Sites == [i \in 1..Len(installs) |-> installs[i].site]

\* C6: when the setup cell has finished, install_datasets was called in the
\* try block at most once, with reinstall True exactly when the widget value
\* is "true" ignoring case; the fallback install_datasets(reinstall=False)
\* was called once when the widget could not be read or the first call
\* raised, and not at all otherwise; and validate_datasets was called once
\* when the last install_datasets call did not raise, and not at all when
\* it raised.
C6_BestEffortInstall ==
    (pc \in {"done", "raised", "Validation failed", "ls"}) =>
        /\ Sites \in {<<"try">>, <<"try", "except">>, <<"except">>}
        /\ (Sites = <<"except">>) <=> ~widget.defined
        /\ (Sites = <<"try", "except">>) => installs[1].raised
        /\ (Sites = <<"try">>) => ~installs[1].raised
        /\ \A i \in 1..Len(installs) :
              installs[i].reinstall
                 <=> (installs[i].site = "try" /\ IsTrueIgnoringCase(widget.value))
        /\ validations = IF installs[Len(installs)].raised THEN 0 ELSE 1

C6_Witness ==
    /\ pc = "Validation failed"
    /\ Sites = <<"try", "except">>
    /\ widget.value = <<"T", "r", "U", "e">>
    /\ validations = 1

\* C7 as stated: the run loaded as predict is the StandardizedValidation run
\* whenever no other run was started in its experiment between the return of
\* track_experiments and the search_runs call.
C7_Original ==
    (npc = "done" /\ ~lateStart) => predict = run

\* C7, amended: the run loaded as predict is a run of the experiment of the
\* run returned by the second track_experiments call with the greatest start
\* time among the runs search_runs saw, and it is that StandardizedValidation
\* run itself whenever every other run of the experiment that search_runs saw
\* has a smaller start time, i.e. none was started at or after the start of
\* the StandardizedValidation run.
C7_LastRun ==
    npc = "done" =>
        /\ predict \in searched
        /\ predict.experiment_id = run.experiment_id
        /\ \A r \in searched :
              r.experiment_id = run.experiment_id
                 => r.start_time <= predict.start_time
        /\ (\A r \in searched \ {run} :
              r.experiment_id = run.experiment_id
                 => r.start_time < run.start_time) => predict = run

C7_Witness ==
    /\ npc = "done"
    /\ predict = run
    /\ run.run_name = "StandardizedValidation"
    /\ \E r \in searched : r.run_name = "other"
                           /\ r.experiment_id = run.experiment_id
    /\ \E r \in runs \ searched : r.experiment_id = run.experiment_id

Count(ops, op) == Cardinality({j \in 1..Len(ops) : ops[j] = op})

\* C8: in every install_datasets call, dbutils.fs.rm is called only when the
\* target could be listed and reinstall is True; a dbutils.fs.rm comes
\* before the dbutils.fs.cp; dbutils.fs.cp is called at most once; a copy
\* over a target that existed follows its removal; and when the target does
\* not exist, dbutils.fs.cp is called with no dbutils.fs.rm, whatever
\* reinstall is.
C8_RemoveBeforeCopy ==
    \A i \in 1..Len(installs) :
        LET c == installs[i]
        IN /\ Count(c.ops, "rm") > 0 => (c.listed /\ c.reinstall)
           /\ \A j, k \in 1..Len(c.ops) :
                 (c.ops[j] = "rm" /\ c.ops[k] = "cp") => j < k
           /\ Count(c.ops, "cp") <= 1
           /\ (c.listed /\ Count(c.ops, "cp") > 0) => c.ops = <<"rm", "cp">>
           /\ ~c.listed => c.ops = <<"cp">>

C8_Witness ==
    /\ Len(installs) = 2
    /\ installs[1].ops = <<"rm", "cp">>
    /\ installs[1].raised
    /\ installs[2].ops = <<"cp">>
    /\ ~installs[2].listed

\* C9: the list list_r returns for a directory is sorted ascending without
\* repeats and holds exactly the paths, relative to the directory, of the
\* files and directories below it.
C9_ListR ==
    (Validated /\ pc # "ls") =>
        /\ StrictlyAscending(local_files)
        /\ Range(local_files) = RelPaths(fs, datasets_dir)
        /\ Len(local_files) = Cardinality(RelPaths(fs, datasets_dir))
        /\ StrictlyAscending(remote_files)
        /\ Range(remote_files) = RelPaths(fs, source_path)
        /\ Len(remote_files) = Cardinality(RelPaths(fs, source_path))

C9_Witness ==
    /\ Validated
    /\ lsRev
    /\ Len(remote_files) = 2
    /\ \E e \in Under(fs, source_path) : e.isDir /\ Under(fs, e.path) # {}
    /\ \E e \in Under(fs, datasets_dir) : ~e.isDir

====
